---- MODULE Spec2Model ----
(***************************************************************************)
(* A model of keras/layers/advanced_activations.py: the five activation    *)
(* layers LeakyReLU, PReLU, ParametricSoftplus, ThresholdedLinear and      *)
(* ThresholdedReLu, their construction, forward evaluation (get_output),   *)
(* shape queries, get_config, and the host's parameter replacement and     *)
(* reconstruction from a configuration.                                    *)
(*                                                                         *)
(* Numbers are exact rationals <<n, d>> in lowest terms with d > 0.        *)
(* A tensor is a record [ok, shape, val]: shape is the tuple of dimension  *)
(* sizes and val the sequence of its elements in row-major order.  A       *)
(* Python scalar is a tensor of rank 0.  A failed elementwise operation is *)
(* TError.                                                                 *)
(***************************************************************************)
EXTENDS Integers, Sequences, FiniteSets, TLC

(***************************************************************************)
(* Bounds of the model.                                                    *)
(***************************************************************************)
\* a dimension has size 1 or MaxDim
MaxDim == 2
\* a declared input_shape has rank 1..MaxRank; an input, whose first
\* dimension is the batch, has rank 2..MaxRank + 1
MaxRank == 2
\* how many times a layer is stacked on its own output
MaxApply == 2

(***************************************************************************)
(* Exact rational arithmetic.                                              *)
(***************************************************************************)
RECURSIVE GCD(_, _)
GCD(a, b) == IF b = 0 THEN a ELSE GCD(b, a % b)

IAbs(n) == IF n < 0 THEN -n ELSE n

Rat(n, d) ==
  LET g == GCD(IAbs(n), IAbs(d))
      s == IF d < 0 THEN -1 ELSE 1
  IN  <<(s * n) \div g, (s * d) \div g>>

RInt(n) == <<n, 1>>
RAdd(a, b) == Rat(a[1] * b[2] + b[1] * a[2], a[2] * b[2])
RSub(a, b) == Rat(a[1] * b[2] - b[1] * a[2], a[2] * b[2])
RMul(a, b) == Rat(a[1] * b[1], a[2] * b[2])
RDiv(a, b) == Rat(a[1] * b[2], a[2] * b[1])
RAbs(a) == <<IAbs(a[1]), a[2]>>
RLt(a, b) == a[1] * b[2] < b[1] * a[2]
RGt(a, b) == RLt(b, a)
RMax(a, b) == IF RLt(a, b) THEN b ELSE a
RMin(a, b) == IF RLt(a, b) THEN a ELSE b
RZero == RInt(0)

(***************************************************************************)
(* Tensors and the elementwise operations of the tensor library.           *)
(***************************************************************************)
RECURSIVE Size(_)
Size(shape) == IF Len(shape) = 0 THEN 1 ELSE Head(shape) * Size(Tail(shape))

TError == [ok |-> FALSE, shape |-> <<>>, val |-> <<>>]
TNone == [ok |-> FALSE, shape |-> <<0>>, val |-> <<>>]
Scalar(r) == [ok |-> TRUE, shape |-> <<>>, val |-> <<r>>]
Fill(shape, r) == [ok |-> TRUE, shape |-> shape, val |-> [p \in 1..Size(shape) |-> r]]

Min2(a, b) == IF a < b THEN a ELSE b
Last(s, k) == SubSeq(s, Len(s) - k + 1, Len(s))

\* The operand of lower rank is padded on the left with broadcastable
\* dimensions; every other pair of aligned dimensions must agree, since
\* neither a symbolic input nor a shared parameter is broadcastable.
Compatible(sa, sb) ==
  LET k == Min2(Len(sa), Len(sb)) IN Last(sa, k) = Last(sb, k)

BShape(sa, sb) == IF Len(sa) < Len(sb) THEN sb ELSE sa

\* the element of t that meets position p of the result: t's trailing
\* dimensions are the result's, so in row-major order t repeats
At(t, p) == t.val[((p - 1) % Len(t.val)) + 1]

Elemwise(Op(_, _), a, b) ==
  IF ~a.ok \/ ~b.ok \/ ~Compatible(a.shape, b.shape) THEN TError
  ELSE LET s == BShape(a.shape, b.shape)
       IN  [ok |-> TRUE, shape |-> s,
            val |-> [p \in 1..Size(s) |-> Op(At(a, p), At(b, p))]]

TAdd(a, b) == Elemwise(RAdd, a, b)
TSub(a, b) == Elemwise(RSub, a, b)
TMul(a, b) == Elemwise(RMul, a, b)
TDiv(a, b) == Elemwise(RDiv, a, b)
TAbs(a) == IF ~a.ok THEN TError ELSE [a EXCEPT !.val = [i \in DOMAIN a.val |-> RAbs(a.val[i])]]

TLt(a, b) == Elemwise(RLt, a, b)
TGt(a, b) == Elemwise(RGt, a, b)

\* T.switch(cond, ift, iff): a three-operand elementwise selection
TSwitch(c, a, b) ==
  IF ~c.ok \/ ~a.ok \/ ~b.ok
     \/ ~Compatible(c.shape, a.shape) \/ ~Compatible(c.shape, b.shape)
     \/ ~Compatible(a.shape, b.shape) THEN TError
  ELSE LET s == BShape(BShape(c.shape, a.shape), b.shape)
       IN  [ok |-> TRUE, shape |-> s,
            val |-> [p \in 1..Size(s) |-> IF At(c, p) THEN At(a, p) ELSE At(b, p)]]

\* T.nnet.softplus: log(1 + exp(z)) is not a rational number; an element of
\* the result is kept as the term <<"softplus", z>>, and a product with it
\* as the term <<"mul", u, v>>.
SoftplusTerm(z) == <<"softplus", z>>
MulTerm(u, v) == <<"mul", u, v>>
TSoftplus(a) ==
  IF ~a.ok THEN TError
  ELSE [a EXCEPT !.val = [i \in DOMAIN a.val |-> SoftplusTerm(a.val[i])]]
TMulTerm(a, b) == Elemwise(MulTerm, a, b)

(***************************************************************************)
(* Input sets.                                                             *)
(***************************************************************************)
Dims == {1, MaxDim}
ShapesOfRank(r) == [1..r -> Dims]
PShapes == UNION {ShapesOfRank(r) : r \in 1..MaxRank}
XShapes == UNION {ShapesOfRank(r) : r \in 2..(MaxRank + 1)}

\* element values of inputs, and of explicit or randomly drawn parameters
XVals == <<RInt(-2), RInt(-1), RInt(0), RInt(1), RInt(2)>>
AVals == <<Rat(1, 2), RInt(2), RInt(0)>>

Pattern(shape, vals, seed) ==
  [ok |-> TRUE, shape |-> shape,
   val |-> [p \in 1..Size(shape) |-> vals[((seed + p - 1) % Len(vals)) + 1]]]

\* the values in row-major order, starting at the first or the second
Inputs == {Pattern(s, XVals, k) : s \in XShapes, k \in 0..1}

\* a shape of the same rank that differs in its first dimension
WrongShape(s) == <<IF s[1] = MaxDim THEN 1 ELSE MaxDim>> \o Tail(s)

\* weight lists offered to a layer whose parameters have shape s: values
\* of the right shape and of a wrong one, for one or two parameters
WeightLists(s) ==
  LET fit(k) == Pattern(s, AVals, k)
      misfit(k) == Pattern(WrongShape(s), AVals, k)
  IN  {<<fit(0)>>, <<misfit(0)>>, <<fit(0), fit(1)>>,
       <<fit(0), misfit(1)>>, <<misfit(0), fit(1)>>}

Alphas == {RInt(0), Rat(3, 10), RInt(1), RInt(-1)}
Thetas == {RInt(1), RInt(0), RInt(-2), RInt(2)}
\* <<alpha_init, beta_init>>: the defaults, and another pair
SoftplusInits == {<<Rat(1, 5), RInt(5)>>, <<RInt(1), Rat(1, 2)>>}
InitNames == {"zero", "one", "uniform"}

(***************************************************************************)
(* Collaborators outside advanced_activations.py.                          *)
(***************************************************************************)
\* initializations.get(name): the initializer function of that name
initializations_get(name) == [__name__ |-> name]

\* an initializer applied to a shape; 'uniform' draws at random
InitDraws(fn, shape) ==
  CASE fn.__name__ = "zero" -> {Fill(shape, RInt(0))}
    [] fn.__name__ = "one" -> {Fill(shape, RInt(1))}
    [] OTHER -> {Pattern(shape, AVals, k) : k \in 0..1}

NoWeights == [given |-> FALSE, list |-> <<>>]
GivenWeights(ws) == [given |-> TRUE, list |-> ws]

\* Layer.set_weights: for p, w in zip(self.params, weights): a value of
\* another shape than the parameter's is refused, else p.set_value(w).
\* self.alphas and self.params[0] are one shared variable.
RECURSIVE set_weights_from(_, _, _)
set_weights_from(self, weights, k) ==
  IF k > Len(self.params) \/ k > Len(weights)
  THEN [obj |-> self, raised |-> FALSE]
  ELSE IF self[self.params[k]].shape # weights[k].shape
       THEN [obj |-> self, raised |-> TRUE]
       ELSE set_weights_from([self EXCEPT ![self.params[k]] = weights[k]], weights, k + 1)

set_weights(self, weights) == set_weights_from(self, weights, 1)

NoLayer == [kind |-> "None"]

\* the result of a constructor: the object, or an exception out of __init__
Constructed(r) == IF r.raised THEN [obj |-> NoLayer, raised |-> TRUE] ELSE r

(***************************************************************************)
(* The five layers.                                                        *)
(***************************************************************************)
Stateless == {"LeakyReLU", "ThresholdedLinear", "ThresholdedReLu"}
Parametric == {"PReLU", "ParametricSoftplus"}

LeakyReLU_init(alpha) == [kind |-> "LeakyReLU", alpha |-> alpha]

\* drawn: what self.init(input_shape) returned
PReLU_init(input_shape, init, weights, drawn) ==
  LET self == [kind |-> "PReLU",
               init |-> initializations_get(init),
               alphas |-> drawn,
               params |-> <<"alphas">>,
               input_shape |-> input_shape]
  IN  IF weights.given THEN Constructed(set_weights(self, weights.list))
      ELSE [obj |-> self, raised |-> FALSE]

ParametricSoftplus_init(input_shape, alpha_init, beta_init, weights) ==
  LET self == [kind |-> "ParametricSoftplus",
               alpha_init |-> alpha_init,
               beta_init |-> beta_init,
               alphas |-> TMul(Scalar(alpha_init), Fill(input_shape, RInt(1))),
               betas |-> TMul(Scalar(beta_init), Fill(input_shape, RInt(1))),
               params |-> <<"alphas", "betas">>,
               input_shape |-> input_shape]
  IN  IF weights.given THEN Constructed(set_weights(self, weights.list))
      ELSE [obj |-> self, raised |-> FALSE]

ThresholdedLinear_init(theta) == [kind |-> "ThresholdedLinear", theta |-> theta]
ThresholdedReLu_init(theta) == [kind |-> "ThresholdedReLu", theta |-> theta]

Two == Scalar(RInt(2))
Zero == Scalar(RInt(0))

\* A method is the pair [self, ret]: the object as the call leaves it, and
\* the value returned.  X is what self.get_input(train) returns.
\* mutant: the negative part is not halved
LeakyReLU_get_output_unhalved(self, train, X) ==
  [self |-> self,
   ret |-> TAdd(TDiv(TAdd(X, TAbs(X)), Two),
                TMul(Scalar(self.alpha), TSub(X, TAbs(X))))]

LeakyReLU_get_output(self, train, X) ==
  [self |-> self,
   ret |-> TAdd(TDiv(TAdd(X, TAbs(X)), Two),
                TMul(Scalar(self.alpha), TDiv(TSub(X, TAbs(X)), Two)))]

\* mutant: the negative part is not halved
PReLU_get_output_unhalved(self, train, X) ==
  LET pos == TDiv(TAdd(X, TAbs(X)), Two)
      neg == TMul(self.alphas, TSub(X, TAbs(X)))
  IN  [self |-> self, ret |-> TAdd(pos, neg)]

\* mutant: the negative part is kept in self.alphas
PReLU_get_output_storing(self, train, X) ==
  LET pos == TDiv(TAdd(X, TAbs(X)), Two)
      neg == TMul(self.alphas, TDiv(TSub(X, TAbs(X)), Two))
  IN  [self |-> [self EXCEPT !.alphas = neg], ret |-> TAdd(pos, neg)]

PReLU_get_output(self, train, X) ==
  LET pos == TDiv(TAdd(X, TAbs(X)), Two)
      neg == TMul(self.alphas, TDiv(TSub(X, TAbs(X)), Two))
  IN  [self |-> self, ret |-> TAdd(pos, neg)]

ParametricSoftplus_get_output(self, train, X) ==
  [self |-> self, ret |-> TMulTerm(TSoftplus(TMul(self.betas, X)), self.alphas)]

\* mutant: the boundary |x| = theta is zeroed too
TLe(a, b) == Elemwise(LAMBDA u, v : ~RLt(v, u), a, b)
ThresholdedLinear_get_output_inclusive(self, train, X) ==
  [self |-> self, ret |-> TSwitch(TLe(TAbs(X), Scalar(self.theta)), Zero, X)]

ThresholdedLinear_get_output(self, train, X) ==
  [self |-> self, ret |-> TSwitch(TLt(TAbs(X), Scalar(self.theta)), Zero, X)]

\* mutant: the boundary x = theta passes
ThresholdedReLu_get_output_inclusive(self, train, X) ==
  [self |-> self, ret |-> TSwitch(TLe(Scalar(self.theta), X), X, Zero)]

\* mutant: what passes is shifted down by theta
ThresholdedReLu_get_output_shifted(self, train, X) ==
  [self |-> self,
   ret |-> TSwitch(TGt(X, Scalar(self.theta)), TSub(X, Scalar(self.theta)), Zero)]

ThresholdedReLu_get_output(self, train, X) ==
  [self |-> self, ret |-> TSwitch(TGt(X, Scalar(self.theta)), X, Zero)]

get_output(self, train, X) ==
  CASE self.kind = "LeakyReLU" -> LeakyReLU_get_output(self, train, X)
    [] self.kind = "PReLU" -> PReLU_get_output(self, train, X)
    [] self.kind = "ParametricSoftplus" -> ParametricSoftplus_get_output(self, train, X)
    [] self.kind = "ThresholdedLinear" -> ThresholdedLinear_get_output(self, train, X)
    [] self.kind = "ThresholdedReLu" -> ThresholdedReLu_get_output(self, train, X)

\* LeakyReLU, ThresholdedLinear, ThresholdedReLu
calc_output_dims(self, lastdims) == [self |-> self, ret |-> lastdims]

\* PReLU, ParametricSoftplus
get_output_dims(self) == [self |-> self, ret |-> self.input_shape]

LeakyReLU_get_config(self) ==
  [self |-> self, ret |-> [name |-> self.kind, alpha |-> self.alpha]]

PReLU_get_config(self) ==
  [self |-> self,
   ret |-> [name |-> self.kind, input_shape |-> self.input_shape,
            init |-> self.init.__name__]]

\* mutant: beta_init is exported from alpha_init
ParametricSoftplus_get_config_mixed(self) ==
  [self |-> self,
   ret |-> [name |-> self.kind, input_shape |-> self.input_shape,
            alpha_init |-> self.alpha_init, beta_init |-> self.alpha_init]]

ParametricSoftplus_get_config(self) ==
  [self |-> self,
   ret |-> [name |-> self.kind, input_shape |-> self.input_shape,
            alpha_init |-> self.alpha_init, beta_init |-> self.beta_init]]

ThresholdedLinear_get_config(self) ==
  [self |-> self, ret |-> [name |-> self.kind, theta |-> self.theta]]

ThresholdedReLu_get_config(self) ==
  [self |-> self, ret |-> [name |-> self.kind, theta |-> self.theta]]

get_config(self) ==
  CASE self.kind = "LeakyReLU" -> LeakyReLU_get_config(self)
    [] self.kind = "PReLU" -> PReLU_get_config(self)
    [] self.kind = "ParametricSoftplus" -> ParametricSoftplus_get_config(self)
    [] self.kind = "ThresholdedLinear" -> ThresholdedLinear_get_config(self)
    [] self.kind = "ThresholdedReLu" -> ThresholdedReLu_get_config(self)

\* The host builds a layer from a configuration: the class of that name,
\* called with the other entries as its keyword arguments.
from_config_set(config) ==
  CASE config.name = "LeakyReLU" -> {LeakyReLU_init(config.alpha)}
    [] config.name = "PReLU" ->
         {PReLU_init(config.input_shape, config.init, NoWeights, a).obj :
            a \in InitDraws(initializations_get(config.init), config.input_shape)}
    [] config.name = "ParametricSoftplus" ->
         {ParametricSoftplus_init(config.input_shape, config.alpha_init,
                                  config.beta_init, NoWeights).obj}
    [] config.name = "ThresholdedLinear" -> {ThresholdedLinear_init(config.theta)}
    [] config.name = "ThresholdedReLu" -> {ThresholdedReLu_init(config.theta)}

(***************************************************************************)
(* State.                                                                  *)
(*   layer    the layer object (NoLayer when its constructor raised)       *)
(*   touched  its parameters were given explicitly (weights=, set_weights) *)
(*   misfit   the constructor was given a weight of a wrong shape          *)
(*   op       the call whose result is held ("idle": none)                 *)
(*   train, X, out   argument, input and result of get_output              *)
(*   X0       the input at the bottom of a stack of applications           *)
(*   lastdims, dims  argument and result of a shape query                  *)
(*   config   result of get_config;  clone: the layer rebuilt from it      *)
(*   napply   how many times the layer has been applied along a stack      *)
(*   raised   the call ended with an exception                             *)
(***************************************************************************)
VARIABLES layer, touched, misfit, op, train, X0, X, out, lastdims, dims, config, clone,
          napply, raised

vars == <<layer, touched, misfit, op, train, X0, X, out, lastdims, dims, config, clone,
          napply, raised>>

NoShape == <<0>>
NoConfig == [name |-> "None"]

Misfit(self, weights) ==
  \E k \in 1..Min2(Len(self.params), Len(weights)) :
     self[self.params[k]].shape # weights[k].shape

WeightArgs(s) == {NoWeights} \cup {GivenWeights(ws) : ws \in WeightLists(s)}

\* every construction of every layer: [r, given, misfit]
Constructions ==
       {[r |-> [obj |-> LeakyReLU_init(a), raised |-> FALSE],
         given |-> FALSE, misfit |-> FALSE] : a \in Alphas}
  \cup {[r |-> [obj |-> ThresholdedLinear_init(t), raised |-> FALSE],
         given |-> FALSE, misfit |-> FALSE] : t \in Thetas}
  \cup {[r |-> [obj |-> ThresholdedReLu_init(t), raised |-> FALSE],
         given |-> FALSE, misfit |-> FALSE] : t \in Thetas}
  \cup UNION {UNION {UNION {
         {[r |-> PReLU_init(s, n, w, d),
           given |-> w.given,
           misfit |-> Misfit(PReLU_init(s, n, NoWeights, d).obj, w.list)] :
            d \in InitDraws(initializations_get(n), s)} :
          w \in WeightArgs(s)} : n \in InitNames} : s \in PShapes}
  \cup UNION {UNION {
         {[r |-> ParametricSoftplus_init(s, ab[1], ab[2], w),
           given |-> w.given,
           misfit |-> Misfit(ParametricSoftplus_init(s, ab[1], ab[2], NoWeights).obj,
                             w.list)] :
            w \in WeightArgs(s)} : ab \in SoftplusInits} : s \in PShapes}

Held(o) ==
  /\ op' = o
  /\ IF o = "get_output" THEN TRUE
     ELSE train' = FALSE /\ X0' = TNone /\ X' = TNone /\ out' = TNone /\ napply' = 0
  /\ IF o \in {"calc_output_dims", "get_output_dims"} THEN TRUE
     ELSE lastdims' = NoShape /\ dims' = NoShape
  /\ IF o \in {"get_config", "from_config"} THEN TRUE ELSE config' = NoConfig
  /\ IF o = "from_config" THEN TRUE ELSE clone' = NoLayer

Init ==
  \E c \in Constructions :
     /\ layer = c.r.obj
     /\ raised = c.r.raised
     /\ touched = c.given
     /\ misfit = c.misfit
     /\ op = "__init__"
     /\ train = FALSE /\ X0 = TNone /\ X = TNone /\ out = TNone /\ napply = 0
     /\ lastdims = NoShape /\ dims = NoShape
     /\ config = NoConfig /\ clone = NoLayer

Ready == layer.kind # "None" /\ op \in {"__init__", "idle"}

\* the host drops the result it holds
release ==
  /\ layer.kind # "None"
  /\ op \notin {"__init__", "idle"}
  /\ Held("idle")
  /\ raised' = FALSE
  /\ UNCHANGED <<layer, touched, misfit>>

\* forward evaluation on the input the layer below supplies
call_get_output ==
  /\ Ready
  /\ \E t \in BOOLEAN, x \in Inputs :
        LET r == get_output(layer, t, x)
        IN  /\ train' = t
            /\ X0' = x
            /\ X' = x
            /\ out' = r.ret
            /\ layer' = r.self
            /\ raised' = ~r.ret.ok
  /\ napply' = 1
  /\ Held("get_output")
  /\ UNCHANGED <<touched, misfit>>

\* the same input evaluated again, in the other mode
call_get_output_again ==
  /\ op = "get_output"
  /\ napply = 1
  /\ LET r == get_output(layer, ~train, X)
     IN  /\ train' = ~train
         /\ out' = r.ret
         /\ layer' = r.self
         /\ raised' = ~r.ret.ok
  /\ Held("get_output")
  /\ UNCHANGED <<touched, misfit, X0, X, napply>>

\* a second layer of the same class and options stacked on this one: its
\* get_input is this layer's output
call_get_output_stacked ==
  /\ op = "get_output"
  /\ layer.kind \in Stateless
  /\ out.ok
  /\ napply < MaxApply
  /\ LET r == get_output(layer, train, out)
     IN  /\ X' = out
         /\ out' = r.ret
         /\ layer' = r.self
         /\ raised' = ~r.ret.ok
  /\ napply' = napply + 1
  /\ Held("get_output")
  /\ UNCHANGED <<touched, misfit, train, X0>>

call_calc_output_dims ==
  /\ Ready
  /\ layer.kind \in Stateless
  /\ \E d \in XShapes :
        LET r == calc_output_dims(layer, d)
        IN  /\ lastdims' = d
            /\ dims' = r.ret
            /\ layer' = r.self
  /\ Held("calc_output_dims")
  /\ raised' = FALSE
  /\ UNCHANGED <<touched, misfit>>

call_get_output_dims ==
  /\ Ready
  /\ layer.kind \in Parametric
  /\ LET r == get_output_dims(layer)
     IN  /\ lastdims' = NoShape
         /\ dims' = r.ret
         /\ layer' = r.self
  /\ Held("get_output_dims")
  /\ raised' = FALSE
  /\ UNCHANGED <<touched, misfit>>

call_get_config ==
  /\ Ready
  /\ LET r == get_config(layer)
     IN  /\ config' = r.ret
         /\ layer' = r.self
  /\ Held("get_config")
  /\ raised' = FALSE
  /\ UNCHANGED <<touched, misfit>>

\* the host rebuilds a layer from the configuration just exported
call_from_config ==
  /\ op = "get_config"
  /\ clone' \in from_config_set(config)
  /\ Held("from_config")
  /\ raised' = FALSE
  /\ UNCHANGED <<layer, touched, misfit, config>>

\* the optimizer, or a weight loader, replaces the parameters
call_set_weights ==
  /\ Ready
  /\ layer.kind \in Parametric
  /\ \E ws \in WeightLists(layer.input_shape) :
        /\ layer' = set_weights(layer, ws).obj
        /\ raised' = set_weights(layer, ws).raised
  /\ Held("set_weights")
  /\ touched' = TRUE
  /\ UNCHANGED misfit

Next ==
  \/ release
  \/ call_get_output
  \/ call_get_output_again
  \/ call_get_output_stacked
  \/ call_calc_output_dims
  \/ call_get_output_dims
  \/ call_get_config
  \/ call_from_config
  \/ call_set_weights

Spec == Init /\ [][Next]_vars
(***************************************************************************)
(* Properties.                                                             *)
(***************************************************************************)
RGe(a, b) == ~RLt(a, b)
Evaluated(k) == op = "get_output" /\ layer.kind = k

\* where, within its sample, position i of an input of the declared shape
\* lies: the batch is the first dimension
SamplePos(i) == ((i - 1) % Size(layer.input_shape)) + 1

\* C1: LeakyReLU.get_output returns, for every element x of the input and
\* every alpha, x when x >= 0 and alpha * x when x < 0, which is also
\* max(x, 0) + alpha * min(x, 0); the output has the shape of the input.
C1_LeakyReLUPiecewise ==
  Evaluated("LeakyReLU") =>
    /\ out.ok
    /\ out.shape = X.shape
    /\ \A i \in DOMAIN X.val :
          LET x == X.val[i]
          IN  /\ out.val[i] = IF RGe(x, RZero) THEN x ELSE RMul(layer.alpha, x)
              /\ out.val[i] = RAdd(RMax(x, RZero), RMul(layer.alpha, RMin(x, RZero)))

\* C1 witness: a LeakyReLU with the default alpha 0.3 has been evaluated on
\* an input holding a negative and a positive element.
C1_Witness ==
  /\ Evaluated("LeakyReLU")
  /\ layer.alpha = Rat(3, 10)
  /\ \E i, j \in DOMAIN X.val : RLt(X.val[i], RZero) /\ RGt(X.val[j], RZero)

\* C2: PReLU.get_output, on an input of the declared input_shape, returns at
\* every position x when x >= 0 and alphas[position within the sample] * x
\* when x < 0; a PReLU built with init='zero' and never given weights has
\* every alpha 0, and every element of its output is max(x, 0) of the input
\* element it is computed from.
C2_PReLUPiecewise ==
  layer.kind = "PReLU" =>
    /\ (layer.init.__name__ = "zero" /\ ~touched) =>
          layer.alphas = Fill(layer.input_shape, RZero)
    /\ (op = "get_output" /\ Tail(X.shape) = layer.input_shape) =>
          /\ out.ok
          /\ out.shape = X.shape
          /\ \A i \in DOMAIN X.val :
                LET x == X.val[i]
                IN  out.val[i] = IF RGe(x, RZero) THEN x
                                 ELSE RMul(layer.alphas.val[SamplePos(i)], x)
    /\ (op = "get_output" /\ layer.init.__name__ = "zero" /\ ~touched /\ out.ok) =>
          \A i \in DOMAIN out.val : out.val[i] = RMax(At(X, i), RZero)

\* C2 witness: a PReLU has been evaluated on an input of its declared shape
\* in which two negative elements meet two different non-zero alphas.
C2_Witness ==
  /\ Evaluated("PReLU")
  /\ Tail(X.shape) = layer.input_shape
  /\ \E i, j \in DOMAIN X.val :
        /\ RLt(X.val[i], RZero) /\ RLt(X.val[j], RZero)
        /\ layer.alphas.val[SamplePos(i)] # RZero
        /\ layer.alphas.val[SamplePos(j)] # RZero
        /\ layer.alphas.val[SamplePos(i)] # layer.alphas.val[SamplePos(j)]

\* C3: ThresholdedLinear.get_output returns, for every element x and every
\* theta, x when |x| >= theta and 0 when |x| < theta: an element with
\* |x| = theta passes unchanged, and so does a negative one with |x| >= theta.
C3_ThresholdedLinearPiecewise ==
  Evaluated("ThresholdedLinear") =>
    /\ out.ok
    /\ out.shape = X.shape
    /\ \A i \in DOMAIN X.val :
          LET x == X.val[i]
          IN  /\ RGe(RAbs(x), layer.theta) => out.val[i] = x
              /\ RLt(RAbs(x), layer.theta) => out.val[i] = RZero
              /\ RAbs(x) = layer.theta => out.val[i] = x

\* C3 witness: with the default theta 1.0 a negative element on the boundary,
\* an element inside it and one outside it have been evaluated.
C3_Witness ==
  /\ Evaluated("ThresholdedLinear")
  /\ layer.theta = RInt(1)
  /\ \E i, j, k \in DOMAIN X.val :
        /\ X.val[i] = RInt(-1) /\ out.val[i] = RInt(-1)
        /\ X.val[j] = RInt(0)
        /\ X.val[k] = RInt(-2) /\ out.val[k] = RInt(-2)

\* C4 as stated: ThresholdedReLu.get_output returns x when x > theta and 0
\* otherwise, x = theta yields 0, and no negative element is passed through,
\* for every theta.
C4_Original ==
  Evaluated("ThresholdedReLu") =>
    /\ out.ok
    /\ out.shape = X.shape
    /\ \A i \in DOMAIN X.val :
          LET x == X.val[i]
          IN  /\ out.val[i] = IF RGt(x, layer.theta) THEN x ELSE RZero
              /\ x = layer.theta => out.val[i] = RZero
              /\ RLt(x, RZero) => out.val[i] = RZero

\* C4 amended: ThresholdedReLu.get_output returns x when x > theta and 0
\* otherwise, x = theta yields 0, and when theta >= 0 no negative element is
\* passed through (a negative theta lets the negative x > theta through).
C4_ThresholdedReLuPiecewise ==
  Evaluated("ThresholdedReLu") =>
    /\ out.ok
    /\ out.shape = X.shape
    /\ \A i \in DOMAIN X.val :
          LET x == X.val[i]
          IN  /\ out.val[i] = IF RGt(x, layer.theta) THEN x ELSE RZero
              /\ x = layer.theta => out.val[i] = RZero
              /\ (RGe(layer.theta, RZero) /\ RLt(x, RZero)) => out.val[i] = RZero

\* C4 witness: with the default theta 1.0 an element on the threshold, one
\* above it and a negative one have been evaluated.
C4_Witness ==
  /\ Evaluated("ThresholdedReLu")
  /\ layer.theta = RInt(1)
  /\ \E i, j, k \in DOMAIN X.val :
        /\ X.val[i] = RInt(1) /\ out.val[i] = RZero
        /\ X.val[j] = RInt(2) /\ out.val[j] = RInt(2)
        /\ RLt(X.val[k], RZero)

\* C10: applying ThresholdedLinear, or ThresholdedReLu, to its own output
\* returns that output again, for every theta; for alpha >= 0 LeakyReLU
\* does so exactly when alpha is 0 or 1 or no element of the input is
\* negative, a negative x giving alpha * alpha * x on the second application.
C10_Idempotence ==
  (op = "get_output" /\ napply >= 2) =>
    /\ layer.kind \in {"ThresholdedLinear", "ThresholdedReLu"} => out = X
    /\ (layer.kind = "LeakyReLU" /\ RGe(layer.alpha, RZero)) =>
          /\ (out = X) <=> \/ layer.alpha \in {RInt(0), RInt(1)}
                           \/ \A i \in DOMAIN X0.val : RGe(X0.val[i], RZero)
          /\ napply = 2 =>
                \A i \in DOMAIN X0.val :
                   RLt(X0.val[i], RZero) =>
                      out.val[i] = RMul(layer.alpha, RMul(layer.alpha, X0.val[i]))

\* C10 witness: a ThresholdedLinear has been applied to its own output, the
\* first application having zeroed one element and kept another.
C10_Witness ==
  /\ Evaluated("ThresholdedLinear")
  /\ napply = 2
  /\ \E i, j \in DOMAIN X.val :
        /\ X0.val[i] # RZero /\ X.val[i] = RZero
        /\ X.val[j] # RZero

\* the options each constructor takes
CtorOptions(k) ==
  CASE k = "LeakyReLU" -> {"alpha"}
    [] k = "PReLU" -> {"input_shape", "init", "weights"}
    [] k = "ParametricSoftplus" -> {"input_shape", "alpha_init", "beta_init", "weights"}
    [] k = "ThresholdedLinear" -> {"theta"}
    [] k = "ThresholdedReLu" -> {"theta"}

\* the value a layer holds for an option of its configuration
Option(self, k) == IF k = "init" THEN self.init.__name__ ELSE self[k]

\* the parameters equal what the constructor options alone determine
Pristine(self) ==
  CASE self.kind = "PReLU" -> InitDraws(self.init, self.input_shape) = {self.alphas}
    [] self.kind = "ParametricSoftplus" ->
         /\ self.alphas = TMul(Scalar(self.alpha_init), Fill(self.input_shape, RInt(1)))
         /\ self.betas = TMul(Scalar(self.beta_init), Fill(self.input_shape, RInt(1)))
    [] OTHER -> TRUE

SameOutput(a, b) ==
  \A t \in BOOLEAN, x \in Inputs : get_output(a, t, x).ret = get_output(b, t, x).ret

\* C5 as stated, its round trip: in every state a layer can reach, whether
\* built with explicit weights or not and whatever parameters it was given
\* since, the layer constructed from the mapping get_config returns
\* produces the same output as the original for every input.
C5_Original ==
  op = "from_config" =>
    /\ config.name = layer.kind
    /\ SameOutput(layer, clone)

\* C5 amended: get_config holds the variant name and every constructor
\* option except weights, each with the value the layer holds; the layer
\* constructed from it produces the same output as the original for every
\* input whenever the original's parameters equal what those options alone
\* determine (always so for the three layers without parameters).
C5_ConfigRoundTrip ==
  op = "from_config" =>
    /\ config.name = layer.kind
    /\ DOMAIN config = {"name"} \cup (CtorOptions(layer.kind) \ {"weights"})
    /\ \A k \in DOMAIN config \ {"name"} : config[k] = Option(layer, k)
    /\ clone.kind = layer.kind
    /\ Pristine(layer) => SameOutput(layer, clone)

\* C5 witness: a ParametricSoftplus with options other than the defaults and
\* parameters as constructed has been rebuilt from its configuration.
C5_Witness ==
  /\ op = "from_config"
  /\ layer.kind = "ParametricSoftplus"
  /\ layer.alpha_init # Rat(1, 5)
  /\ Pristine(layer)

\* C6 as stated: the shape a layer reports and the shape of the output it
\* produces equal the shape of the input it is given, for every variant and
\* every input shape.  For PReLU and ParametricSoftplus the formula asks
\* less than the claim: that the reported shape holds as many elements as
\* a sample of the input evaluated, so that dimensions of size 1 do not
\* decide it.
C6_Original ==
  /\ op = "calc_output_dims" => dims = lastdims
  /\ (op = "get_output" /\ out.ok) => out.shape = X.shape
  /\ (op = "get_output" /\ layer.kind \in Parametric /\ out.ok) =>
        Size(get_output_dims(layer).ret) = Size(Tail(X.shape))

\* C7 as stated: PReLU and ParametricSoftplus raise when constructed with a
\* weight whose shape is not the declared input_shape, and when evaluated on
\* an input whose per-sample shape is incompatible with it.  The formula
\* asks less than the claim: an error only when a sample of the input does
\* not even hold as many elements as input_shape declares.
C7_Original ==
  /\ (op = "__init__" /\ misfit) => raised
  /\ (op = "get_output" /\ layer.kind \in Parametric
        /\ Size(Tail(X.shape)) # Size(layer.input_shape)) => (raised /\ ~out.ok)

\* C9: no call but set_weights changes a PReLU's or a ParametricSoftplus's
\* alphas, betas or params, params being [alphas] and [alphas, betas]; an
\* evaluation repeated on the same input, in either mode, returns the same
\* output.
C9_ParametersFrame ==
  [][/\ (layer.kind \in Parametric /\ op' # "set_weights") =>
           /\ layer'.alphas = layer.alphas
           /\ layer'.params = layer.params
           /\ layer.kind = "ParametricSoftplus" => layer'.betas = layer.betas
     /\ layer'.kind = "PReLU" => layer'.params = <<"alphas">>
     /\ layer'.kind = "ParametricSoftplus" => layer'.params = <<"alphas", "betas">>
     /\ (layer.kind \in Parametric /\ op = "get_output" /\ op' = "get_output" /\ X' = X) =>
           out' = out]_vars

\* C9 witness: a PReLU whose parameters were given explicitly has been
\* evaluated in training mode on an input of its declared shape.
C9_Witness ==
  /\ Evaluated("PReLU")
  /\ train
  /\ touched
  /\ out.ok
  /\ Tail(X.shape) = layer.input_shape
====
